---- MODULE Spec2Model ----
(***************************************************************************)
(* Distributed classification metrics of gpu-bdb query 28                  *)
(* (src/gpu_bdb/queries/q28/gpu_bdb_query_28_sql.py): accuracy_score,      *)
(* precision_score and confusion_matrix, each a coordinator that scatters  *)
(* one unit of work per partition, gathers the partial statistics and      *)
(* reduces them.                                                           *)
(*                                                                         *)
(* Numbers: counts are integers; a float result is an exact fraction       *)
(* [nan, num, den] in lowest terms, or NaN (0/0).  Weights and counts are  *)
(* never negative, so x/0 with x # 0 (an infinity) does not arise.         *)
(***************************************************************************)
EXTENDS Integers, Sequences, FiniteSets, TLC

\* ---------------------------------------------------------------- bounds
\* the most rows of a label sequence, and the most partitions it is cut into
MaxRows == 3
MaxParts == 2
\* the largest label map_labels produces (labels are 0, 1, 2)
MaxLabel == 2

TrueLabels == 0..MaxLabel
\* the classifier predicts labels it was trained on; a prediction can still
\* lie outside the label space of the test partition (at or above nclasses)
PredLabels == 0..MaxLabel

Ops == {"accuracy", "precision", "confusion"}
Averages == {"binary", "macro", "micro"}
Normalizes == {"none", "true", "pred", "all"}

\* ---------------------------------------------------------------- helpers
Range(s) == {s[i] : i \in DOMAIN s}

RECURSIVE SumSeq(_)
SumSeq(s) == IF s = <<>> THEN 0 ELSE Head(s) + SumSeq(Tail(s))

RECURSIVE SumIdx(_, _)
\* sum of f[i] over the finite index set I
SumIdx(f, I) ==
    IF I = {} THEN 0
    ELSE LET i == CHOOSE x \in I : TRUE IN f[i] + SumIdx(f, I \ {i})

RECURSIVE GCD(_, _)
GCD(a, b) == IF b = 0 THEN a ELSE GCD(b, a % b)

NaN == [nan |-> TRUE, num |-> 0, den |-> 1]

\* the float a / b for integers a >= 0, b > 0, in lowest terms
Ratio(a, b) ==
    LET g == GCD(a, b) IN [nan |-> FALSE, num |-> a \div g, den |-> b \div g]

\* float division of two non-negative counts: 0/0 is not-a-number
TrueDivide(a, b) == IF b = 0 THEN NaN ELSE Ratio(a, b)

FloatAdd(x, y) ==
    IF x.nan \/ y.nan THEN NaN
    ELSE Ratio(x.num * y.den + y.num * x.den, x.den * y.den)

\* x / n for a float x and an integer n > 0
FloatDivInt(x, n) == IF x.nan THEN NaN ELSE Ratio(x.num, x.den * n)

\* cp.nan_to_num on one cell
NanToNum(x) == IF x.nan THEN Ratio(0, 1) ELSE x

\* ------------------------------------------------------------ partitions
RECURSIVE ChunkStart(_, _)
\* index of the first row of partition p (1-based) under chunk sizes c
ChunkStart(c, p) == IF p = 1 THEN 1 ELSE ChunkStart(c, p - 1) + c[p - 1]

\* partition p of the sequence s
Block(s, c, p) == SubSeq(s, ChunkStart(c, p), ChunkStart(c, p) + c[p] - 1)

\* the ways of cutting n rows into 1..MaxParts non-empty contiguous chunks
Chunkings(n) ==
    {c \in UNION {[1..k -> 1..n] : k \in 1..MaxParts} : SumSeq(c) = n}

\* ------------------------------------------------------------- cp.unique
RECURSIVE SortSet(_)
SortSet(S) ==
    IF S = {} THEN <<>>
    ELSE LET m == CHOOSE x \in S : \A y \in S : x <= y
         IN <<m>> \o SortSet(S \ {m})

\* cp.unique(x): the distinct values of x, ascending
Unique(s) == SortSet(Range(s))

RECURSIVE Concat(_)
\* concatenation of a sequence of sequences (dask assembling the blocks)
Concat(ss) == IF ss = <<>> THEN <<>> ELSE Head(ss) \o Concat(Tail(ss))

\* ------------------------------------------------------ local computers
Ok(v) == [ok |-> TRUE, val |-> v, err |-> "none"]
Err(e) == [ok |-> FALSE, val |-> 0, err |-> e]

\* mutant of count_accurate_predictions: counts the rows that differ
CountInaccuratePredictions(y_hat, y) ==
    Cardinality({i \in 1..Len(y) : y[i] - y_hat[i] # 0})

\* _count_accurate_predictions: y.shape[0] - count_nonzero(y - y_hat)
CountAccuratePredictions(y_hat, y) ==
    Len(y) - Cardinality({i \in 1..Len(y) : y[i] - y_hat[i] # 0})

\* cp.zeros((rows, cols)): a table indexed from 0 by row, from 1 by column
Zeros(rows, cols) == [i \in 0..(rows - 1) |-> [j \in 1..cols |-> 0]]

RECURSIVE SumTpFpLoop(_, _, _, _, _)
\* the loop of sum_tp_fp from class i on, res being the table so far
SumTpFpLoop(y, y_pred, nclasses, i, res) ==
    IF i >= nclasses THEN res
    ELSE LET pos_pred_ix == {k \in 1..Len(y_pred) : y_pred[k] = i}
             tp_sum == Cardinality({k \in pos_pred_ix : y_pred[k] = y[k]})
             fp_sum == Cardinality({k \in pos_pred_ix : y_pred[k] # y[k]})
         IN IF pos_pred_ix = {}
            THEN [res EXCEPT ![i] = <<0, 0>>]      \* res[i] = 0; break
            ELSE SumTpFpLoop(y, y_pred, nclasses, i + 1,
                             [res EXCEPT ![i] = <<tp_sum, fp_sum>>])

\* sum_tp_fp((y, y_pred), nclasses)
sum_tp_fp(y, y_pred, nclasses) ==
    SumTpFpLoop(y, y_pred, nclasses, 0, Zeros(nclasses, 2))

RECURSIVE MaskSelect(_, _)
\* a[mask] for a boolean mask of the same length
MaskSelect(a, mask) ==
    IF a = <<>> THEN <<>>
    ELSE LET r == MaskSelect(SubSeq(a, 1, Len(a) - 1),
                             SubSeq(mask, 1, Len(mask) - 1))
         IN IF mask[Len(a)] THEN Append(r, a[Len(a)]) ELSE r

\* mutant of CooToArray: a repeated (row, col) entry overwrites the cell
CooToArrayLastWins(data, row, col, n) ==
    [t \in 0..(n - 1) |-> [p \in 0..(n - 1) |->
        LET I == {i \in 1..Len(data) : row[i] = t /\ col[i] = p}
        IN IF I = {} THEN 0
           ELSE data[CHOOSE i \in I : \A j \in I : j <= i]]]

\* coo_matrix((data, (row, col)), shape=(n, n)).toarray(): repeated entries
\* are summed; cells are indexed from 0 in both directions
CooToArray(data, row, col, n) ==
    [t \in 0..(n - 1) |-> [p \in 0..(n - 1) |->
        SumIdx(data, {i \in 1..Len(data) : row[i] = t /\ col[i] = p})]]

\* local_cm((y_true, y_pred), unique_labels, sample_weight); sample_weight is
\* [given |-> FALSE] for None.  Two library errors can end it: a boolean mask
\* whose length differs from the indexed array's (IndexError), and a negative
\* row or column index handed to coo_matrix (ValueError)
local_cm(y_true, y_pred, unique_labels, sample_weight) ==
    LET n_labels == Len(unique_labels)
        ind == [i \in 1..Len(y_true) |->
                   y_pred[i] < n_labels /\ y_true[i] < n_labels]
        yp == MaskSelect(y_pred, ind)
        yt == MaskSelect(y_true, ind)
        sw == IF sample_weight.given THEN sample_weight.w
              ELSE [i \in 1..Len(yt) |-> 1]
    IN IF Len(sw) # Len(ind) THEN Err("IndexError")
       ELSE LET w == MaskSelect(sw, ind)
            IN IF \E i \in 1..Len(w) : yt[i] < 0 \/ yp[i] < 0
               THEN Err("ValueError")
               ELSE Ok(CooToArray(w, yt, yp, n_labels))

\* ------------------------------------------------------- global reducer
\* mutant of ArrayAdd: "res = i" in place of "res += i"
ArrayTakeRight(a, b) == b

\* a + b, element-wise, for two tables of the same shape
ArrayAdd(a, b) ==
    [i \in DOMAIN a |-> [j \in DOMAIN a[i] |-> a[i][j] + b[i][j]]]

RECURSIVE Accumulate(_, _)
\* acc after "for i in parts: acc += i"
Accumulate(acc, parts) ==
    IF parts = <<>> THEN acc
    ELSE Accumulate(ArrayAdd(acc, Head(parts)), Tail(parts))

RECURSIVE FloatSum(_, _)
\* sum of the floats prec[0 .. k-1]
FloatSum(prec, k) ==
    IF k = 0 THEN Ratio(0, 1) ELSE FloatAdd(FloatSum(prec, k - 1), prec[k - 1])

\* lines 139-154 of precision_score: the precision derived from the summed
\* TP/FP table res
PrecisionFromTable(res, nclasses, avg) ==
    IF avg = "binary" \/ avg = "macro"
    THEN LET prec == [i \in 0..(nclasses - 1) |->
                         TrueDivide(res[i][1], res[i][1] + res[i][2])]
         IN IF avg = "binary" THEN prec[nclasses - 1]
            ELSE FloatDivInt(FloatSum(prec, nclasses), nclasses)
    ELSE LET global_tp == SumIdx([i \in DOMAIN res |-> res[i][1]], DOMAIN res)
             global_fp == SumIdx([i \in DOMAIN res |-> res[i][2]], DOMAIN res)
         IN TrueDivide(global_tp, global_tp + global_fp)

\* the sum of all cells of an integer matrix
CellSum(cm) ==
    SumIdx([t \in DOMAIN cm |-> SumIdx(cm[t], DOMAIN cm[t])], DOMAIN cm)

\* lines 207-214 of confusion_matrix: the optional normalization, then
\* nan_to_num; the result is a matrix of floats
Normalized(cm, norm) ==
    [t \in DOMAIN cm |-> [p \in DOMAIN cm[t] |->
        NanToNum(
            IF norm = "true" THEN TrueDivide(cm[t][p], SumIdx(cm[t], DOMAIN cm[t]))
            ELSE IF norm = "pred"
                 THEN TrueDivide(cm[t][p],
                                 SumIdx([u \in DOMAIN cm |-> cm[u][p]], DOMAIN cm))
            ELSE IF norm = "all" THEN TrueDivide(cm[t][p], CellSum(cm))
            ELSE Ratio(cm[t][p], 1))]]

\* mutant of BinaryInvalid: the bound on nclasses is off by one
BinaryInvalidOffByOne(avg, nclasses) == avg = "binary" /\ nclasses > 3

\* precision_score lines 118-122: the two checks on nclasses
BinaryInvalid(avg, nclasses) == avg = "binary" /\ nclasses > 2

SingleClass(nclasses) == nclasses < 2

\* ---------------------------------------------------------------- state
VARIABLES
    pc,             \* where the coordinator is: idle, resolve, metric, reduce, done
    op,             \* the metric called: accuracy, precision or confusion
    y_true,         \* the true labels, all rows
    y_pred,         \* the predicted labels, all rows
    chunks,         \* the sizes of the aligned partitions
    average,        \* precision_score's averaging mode
    normalize,      \* confusion_matrix's normalize ("none" for None)
    sample_weight,  \* confusion_matrix's sample_weight ([given |-> FALSE] for None)
    labelUnit,      \* per partition, the state of its cp.unique block task
    labelRes,       \* per partition, the distinct labels its block task returned
    statUnit,       \* per partition, the state of its submitted metric task
    statRes,        \* per partition, the partial statistic its task returned
    order,          \* the partitions whose metric task returned, in completion order
    unique_classes, \* confusion_matrix's unique_classes
    nclasses,       \* the number of classes once resolved, 0 before
    gathered,       \* the list client.compute(..., sync=True) returned
    res,            \* the accumulated global statistic
    outcome,        \* pending, ok, or the error the call raised
    result          \* the value returned to the caller

vars == <<pc, op, y_true, y_pred, chunks, average, normalize, sample_weight,
          labelUnit, labelRes, statUnit, statRes, order, unique_classes,
          nclasses, gathered, res, outcome, result>>

NoValue == [kind |-> "none"]
Scalar(x) == [kind |-> "scalar", v |-> x]
Matrix(m) == [kind |-> "matrix", m |-> m]

NoWeights == [given |-> FALSE, w |-> <<>>]
\* the weight sequences tried for n rows: none, or row i weighing i + 1
WeightChoices(n) == {NoWeights, [given |-> TRUE, w |-> [i \in 1..n |-> i + 1]]}

Parts == 1..Len(chunks)

\* a task that has ended in an error
Failed(status) == {p \in DOMAIN status : status[p] \notin {"none", "running", "done"}}

\* mutant of RoundComplete: one finished task is taken for the whole round
RoundCompleteAny(status) == \E p \in DOMAIN status : status[p] = "done"

\* every task of the round has returned
RoundComplete(status) == \A p \in DOMAIN status : status[p] = "done"

\* mutant of GatherRaises: failed tasks are skipped (gather(errors="skip"))
GatherSkipsErrors(status) == FALSE

\* the synchronous gather re-raises the error of a failed task
GatherRaises(status) == Failed(status) # {}

RECURSIVE GatherList(_, _, _)
\* the results of the finished tasks 1..k, in partition order
GatherList(status, results, k) ==
    IF k = 0 THEN <<>>
    ELSE IF status[k] = "done"
         THEN Append(GatherList(status, results, k - 1), results[k])
         ELSE GatherList(status, results, k - 1)

\* the partial statistic of partition p, as its task computes it
LocalStat(p) ==
    LET y == Block(y_true, chunks, p)
        y_hat == Block(y_pred, chunks, p)
    IN CASE op = "accuracy" -> Ok(CountAccuratePredictions(y_hat, y))
         [] op = "precision" -> Ok(sum_tp_fp(y, y_hat, nclasses))
         [] OTHER -> local_cm(y, y_hat, unique_classes, sample_weight)

Init ==
    /\ pc = "idle"
    /\ op = "none"
    /\ y_true = <<>>
    /\ y_pred = <<>>
    /\ chunks = <<>>
    /\ average = "binary"
    /\ normalize = "none"
    /\ sample_weight = NoWeights
    /\ labelUnit = <<>>
    /\ labelRes = <<>>
    /\ statUnit = <<>>
    /\ statRes = <<>>
    /\ order = <<>>
    /\ unique_classes = <<>>
    /\ nclasses = 0
    /\ gathered = <<>>
    /\ res = 0
    /\ outcome = "pending"
    /\ result = NoValue

\* a caller invokes accuracy_score, precision_score or confusion_matrix on
\* partitioned labels; the call runs up to its first blocking wait:
\* accuracy_score submits its tasks (lines 223-244), the other two start the
\* label-space pass y.map_blocks(cp.unique).compute() (lines 116, 188)
Call ==
    /\ pc = "idle"
    /\ \E n \in 1..MaxRows, o \in Ops :
         \E c \in Chunkings(n),
            yt \in [1..n -> TrueLabels], yp \in [1..n -> PredLabels],
            avg \in IF o = "precision" THEN Averages ELSE {"binary"},
            norm \in IF o = "confusion" THEN Normalizes ELSE {"none"},
            sw \in IF o = "confusion" THEN WeightChoices(n) ELSE {NoWeights} :
           /\ op' = o
           /\ y_true' = yt
           /\ y_pred' = yp
           /\ chunks' = c
           /\ average' = avg
           /\ normalize' = norm
           /\ sample_weight' = sw
           /\ labelUnit' = [p \in 1..Len(c) |->
                               IF o = "accuracy" THEN "none" ELSE "running"]
           /\ labelRes' = [p \in 1..Len(c) |-> <<>>]
           /\ statUnit' = [p \in 1..Len(c) |->
                               IF o = "accuracy" THEN "running" ELSE "none"]
           /\ statRes' = [p \in 1..Len(c) |-> 0]
           /\ pc' = IF o = "accuracy" THEN "metric" ELSE "resolve"
    /\ UNCHANGED <<order, unique_classes, nclasses, gathered, res, outcome, result>>

\* the block task of partition p returns cp.unique of its slice of y_true
LabelUnitComplete(p) ==
    /\ pc = "resolve"
    /\ labelUnit[p] = "running"
    /\ labelUnit' = [labelUnit EXCEPT ![p] = "done"]
    /\ labelRes' = [labelRes EXCEPT ![p] = Unique(Block(y_true, chunks, p))]
    /\ UNCHANGED <<pc, op, y_true, y_pred, chunks, average, normalize,
                   sample_weight, statUnit, statRes, order, unique_classes,
                   nclasses, gathered, res, outcome, result>>

\* the worker running the block task of partition p fails
LabelUnitFail(p) ==
    /\ pc = "resolve"
    /\ labelUnit[p] = "running"
    /\ labelUnit' = [labelUnit EXCEPT ![p] = "WorkerFailure"]
    /\ UNCHANGED <<pc, op, y_true, y_pred, chunks, average, normalize,
                   sample_weight, labelRes, statUnit, statRes, order,
                   unique_classes, nclasses, gathered, res, outcome, result>>

\* .compute() of the label pass returns or raises; on return the coordinator
\* fixes nclasses, precision_score checks it (lines 118-122), and the metric
\* tasks are submitted, one per partition (lines 124-132, 191-201)
LabelGather ==
    /\ pc = "resolve"
    /\ RoundComplete(labelUnit) \/ Failed(labelUnit) # {}
    /\ IF GatherRaises(labelUnit)
       THEN /\ \E p \in Failed(labelUnit) : outcome' = labelUnit[p]
            /\ pc' = "done"
            /\ UNCHANGED <<unique_classes, nclasses, statUnit>>
       ELSE LET u == Unique(Concat(GatherList(labelUnit, labelRes, Len(chunks))))
            IN /\ nclasses' = Len(u)
               /\ unique_classes' = IF op = "confusion" THEN u ELSE <<>>
               /\ IF op = "precision"
                     /\ (BinaryInvalid(average, Len(u)) \/ SingleClass(Len(u)))
                  THEN /\ outcome' = "ValueError"
                       /\ pc' = "done"
                       /\ UNCHANGED statUnit
                  ELSE /\ statUnit' = [p \in Parts |-> "running"]
                       /\ pc' = "metric"
                       /\ UNCHANGED outcome
    /\ UNCHANGED <<op, y_true, y_pred, chunks, average, normalize, sample_weight,
                   labelUnit, labelRes, statRes, order, gathered, res, result>>

\* the metric task of partition p runs to its end: it returns its partial
\* statistic, or raises
StatUnitComplete(p) ==
    /\ pc = "metric"
    /\ statUnit[p] = "running"
    /\ LET r == LocalStat(p)
       IN IF r.ok
          THEN /\ statUnit' = [statUnit EXCEPT ![p] = "done"]
               /\ statRes' = [statRes EXCEPT ![p] = r.val]
               /\ order' = Append(order, p)
          ELSE /\ statUnit' = [statUnit EXCEPT ![p] = r.err]
               /\ UNCHANGED <<statRes, order>>
    /\ UNCHANGED <<pc, op, y_true, y_pred, chunks, average, normalize,
                   sample_weight, labelUnit, labelRes, unique_classes, nclasses,
                   gathered, res, outcome, result>>

\* the worker running the metric task of partition p fails
StatUnitFail(p) ==
    /\ pc = "metric"
    /\ statUnit[p] = "running"
    /\ statUnit' = [statUnit EXCEPT ![p] = "WorkerFailure"]
    /\ UNCHANGED <<pc, op, y_true, y_pred, chunks, average, normalize,
                   sample_weight, labelUnit, labelRes, statRes, order,
                   unique_classes, nclasses, gathered, res, outcome, result>>

\* client.compute([...], sync=True) returns the list of partial statistics in
\* partition order, or raises the error of a failed task
StatGather ==
    /\ pc = "metric"
    /\ RoundComplete(statUnit) \/ Failed(statUnit) # {}
    /\ IF GatherRaises(statUnit)
       THEN /\ \E p \in Failed(statUnit) : outcome' = statUnit[p]
            /\ pc' = "done"
            /\ UNCHANGED gathered
       ELSE /\ gathered' = GatherList(statUnit, statRes, Len(chunks))
            /\ pc' = "reduce"
            /\ UNCHANGED outcome
    /\ UNCHANGED <<op, y_true, y_pred, chunks, average, normalize, sample_weight,
                   labelUnit, labelRes, statUnit, statRes, order, unique_classes,
                   nclasses, res, result>>

\* the coordinator accumulates the gathered list and derives the metric:
\* accuracy_score line 246, precision_score lines 134-154, confusion_matrix
\* lines 203-216
Reduce ==
    /\ pc = "reduce"
    /\ CASE op = "accuracy" ->
              /\ res' = SumSeq(gathered)
              /\ result' = Scalar(Ratio(SumSeq(gathered), Len(y_true)))
         [] op = "precision" ->
              LET t == Accumulate(Zeros(nclasses, 2), gathered)
              IN /\ res' = t
                 /\ result' = Scalar(PrecisionFromTable(t, nclasses, average))
         [] OTHER ->
              LET cm == Accumulate([i \in 0..(nclasses - 1) |->
                                       [j \in 0..(nclasses - 1) |-> 0]], gathered)
              IN /\ res' = cm
                 /\ result' = Matrix(Normalized(cm, normalize))
    /\ outcome' = "ok"
    /\ pc' = "done"
    /\ UNCHANGED <<op, y_true, y_pred, chunks, average, normalize, sample_weight,
                   labelUnit, labelRes, statUnit, statRes, order, unique_classes,
                   nclasses, gathered>>

Next ==
    \/ Call
    \/ \E p \in Parts : LabelUnitComplete(p)
    \/ \E p \in Parts : LabelUnitFail(p)
    \/ LabelGather
    \/ \E p \in Parts : StatUnitComplete(p)
    \/ \E p \in Parts : StatUnitFail(p)
    \/ StatGather
    \/ Reduce

Spec == Init /\ [][Next]_vars

\* the steps of a run in which no worker fails: a task can still end in an
\* error of its own computation
NextReliable ==
    \/ Call
    \/ \E p \in Parts : LabelUnitComplete(p)
    \/ LabelGather
    \/ \E p \in Parts : StatUnitComplete(p)
    \/ StatGather
    \/ Reduce

SpecReliable == Init /\ [][NextReliable]_vars

\* ---------------------------------------------------------------- claims
TwoRound == op \in {"precision", "confusion"}

\* the rows, over all partitions, whose prediction equals the true label
AccurateRows == {i \in 1..Len(y_true) : y_pred[i] = y_true[i]}

\* C1: whenever accuracy_score returns, whatever the partitioning, the value
\* is (number of rows with y_pred = y_true) / (total number of rows)
C1_AccuracyPartitionInvariant ==
    (pc = "done" /\ op = "accuracy" /\ outcome = "ok")
        => result = Scalar(Ratio(Cardinality(AccurateRows), Len(y_true)))

\* C1 witness: accuracy returned over two partitions, some rows right, some wrong
C1_Witness ==
    /\ pc = "done" /\ op = "accuracy" /\ outcome = "ok"
    /\ Len(chunks) = 2
    /\ Cardinality(AccurateRows) = 2 /\ Len(y_true) = 3
    /\ result = Scalar([nan |-> FALSE, num |-> 2, den |-> 3])

\* C2: once the task of any partition has failed, in either round, no metric
\* value ever reaches the caller, and the call ends in an error
C2_NoPartialMetric ==
    (Failed(labelUnit) # {} \/ Failed(statUnit) # {})
        => /\ result = NoValue
           /\ pc # "reduce"
           /\ pc = "done" => outcome \notin {"ok", "pending"}

\* C2 witness: one metric task returned its partial statistic, another failed,
\* and the call has ended raising that failure
C2_Witness ==
    /\ pc = "done"
    /\ \E p \in Parts, q \in Parts :
          statUnit[p] = "done" /\ statUnit[q] = "WorkerFailure"
    /\ outcome = "WorkerFailure"
    /\ result = NoValue

\* every true and predicted label is one of the labels observed in y_true
LabelsInSpace == \A i \in 1..Len(y_true) : y_pred[i] \in Range(y_true)

\* every true and predicted label is one of 0 .. nclasses-1
LabelsInRange ==
    \A i \in 1..Len(y_true) :
        y_true[i] \in 0..(nclasses - 1) /\ y_pred[i] \in 0..(nclasses - 1)

\* the mean over the classes of TP/(TP+FP), a class with TP+FP = 0 counting 0
MacroPrecisionZeroAsZero(table, n) ==
    FloatDivInt(
        FloatSum([i \in 0..(n - 1) |->
                     IF table[i][1] + table[i][2] = 0 THEN Ratio(0, 1)
                     ELSE Ratio(table[i][1], table[i][1] + table[i][2])], n),
        n)

\* C3: macro precision is the mean over the classes of TP/(TP+FP) taken from
\* the summed table, a class never predicted contributing 0; it is never NaN
\* (stated for labels in 0 .. nclasses-1)
C3_MacroPrecisionNeverNaN ==
    (pc = "done" /\ op = "precision" /\ average = "macro" /\ outcome = "ok"
        /\ LabelsInRange)
        => /\ ~result.v.nan
           /\ result = Scalar(MacroPrecisionZeroAsZero(res, nclasses))

\* C4: binary precision over true labels with more than two distinct values
\* returns no value and ends in an error (the ValueError of line 119 when
\* the label pass itself did not fail), before any metric task is submitted
C4_BinaryRejectsMulticlass ==
    (op = "precision" /\ average = "binary" /\ Cardinality(Range(y_true)) > 2)
        => /\ result = NoValue
           /\ \A p \in Parts : statUnit[p] = "none"
           /\ pc = "done" => outcome # "ok"
           /\ (pc = "done" /\ Failed(labelUnit) = {}) => outcome = "ValueError"

\* C4 witness: binary precision on a 3-class label space ended in ValueError
C4_Witness ==
    /\ pc = "done" /\ op = "precision" /\ average = "binary"
    /\ Range(y_true) = {0, 1, 2}
    /\ nclasses = 3
    /\ outcome = "ValueError"

\* the sum of the cells of a returned matrix whose cells are whole numbers
ResultCellSum ==
    SumIdx([t \in DOMAIN result.m |->
               SumIdx([p \in DOMAIN result.m[t] |-> result.m[t][p].num],
                      DOMAIN result.m[t])], DOMAIN result.m)

\* C5: without weights and without normalization, when every label lies in
\* the label space, the cells of the matrix confusion_matrix returns sum to
\* the total number of rows, whatever the partitioning; and with the labels
\* 0 .. nclasses-1 and no worker failure a matrix is returned
C5_CellSumIsRowCount ==
    (pc = "done" /\ op = "confusion" /\ ~sample_weight.given
        /\ normalize = "none" /\ LabelsInSpace)
        => /\ outcome = "ok" =>
                /\ result.kind = "matrix"
                /\ \A t \in DOMAIN result.m : \A p \in DOMAIN result.m[t] :
                       ~result.m[t][p].nan /\ result.m[t][p].den = 1
                /\ ResultCellSum = Len(y_true)
           /\ (LabelsInRange /\ Failed(labelUnit) = {}
                 /\ (\A p \in Parts : statUnit[p] # "WorkerFailure"))
                 => outcome = "ok"

\* C5 witness: an unweighted, unnormalized 2-class matrix over two partitions,
\* two rows falling in the same cell
C5_Witness ==
    /\ pc = "done" /\ op = "confusion" /\ outcome = "ok"
    /\ ~sample_weight.given /\ normalize = "none" /\ LabelsInSpace
    /\ Len(chunks) = 2 /\ Len(y_true) = 3 /\ nclasses = 2
    /\ \E i \in 1..3, j \in 1..3 :
          i # j /\ y_true[i] = y_true[j] /\ y_pred[i] = y_pred[j]
    /\ ResultCellSum = 3

\* the (TP, FP) row of class c over the slice (y, yp)
TpFpRow(y, yp, c) ==
    LET P == {k \in 1..Len(yp) : yp[k] = c}
        tp == Cardinality({k \in P : y[k] = c})
    IN <<tp, Cardinality(P) - tp>>

\* C6: every partial table sum_tp_fp returns has, for every class c, the row
\* (TP, FP) of c over the partition's slice, classes after a never-predicted
\* class included (stated for labels in 0 .. nclasses-1)
C6_SumTpFpEveryClass ==
    (op = "precision" /\ LabelsInRange) =>
        \A p \in Parts : statUnit[p] = "done" =>
            \A c \in 0..(nclasses - 1) :
                statRes[p][c] = TpFpRow(Block(y_true, chunks, p),
                                        Block(y_pred, chunks, p), c)

\* the weight of row i as confusion_matrix was given it
RowWeight(i) == IF sample_weight.given THEN sample_weight.w[i] ELSE 1

\* C7: local_cm never fails because of a label value, and the matrix it
\* returns counts exactly the rows of its slice whose two labels are in
\* 0 .. nclasses-1
C7_LocalCmNeverFailsOnLabels ==
    op = "confusion" =>
        \A p \in Parts :
            /\ statUnit[p] \notin {"IndexError", "ValueError"}
            /\ (statUnit[p] = "done" /\ ~sample_weight.given) =>
                 \A t \in 0..(nclasses - 1), c \in 0..(nclasses - 1) :
                    statRes[p][t][c] =
                        Cardinality({k \in 1..chunks[p] :
                            /\ Block(y_true, chunks, p)[k] = t
                            /\ Block(y_pred, chunks, p)[k] = c})

\* C8: given per-row weights, cell (t, p) of the unnormalized matrix is the
\* sum of the own weights of the rows with true label t and predicted label
\* p, for every partitioning (stated for labels in 0 .. nclasses-1 and no
\* worker failure)
C8_WeightedCells ==
    (pc = "done" /\ op = "confusion" /\ sample_weight.given
        /\ normalize = "none" /\ LabelsInRange /\ Failed(labelUnit) = {}
        /\ (\A p \in Parts : statUnit[p] # "WorkerFailure"))
        => /\ outcome = "ok"
           /\ \A t \in 0..(nclasses - 1), p \in 0..(nclasses - 1) :
                 res[t][p] =
                     SumIdx([i \in 1..Len(y_true) |-> RowWeight(i)],
                            {i \in 1..Len(y_true) :
                                y_true[i] = t /\ y_pred[i] = p})

\* C9: in precision_score and confusion_matrix no metric task exists before
\* every task of the label pass has returned and nclasses is fixed, and the
\* accumulation starts only after every metric task has returned
C9_RoundsSequential ==
    TwoRound =>
        /\ (\E p \in Parts : statUnit[p] # "none")
              => (\A q \in Parts : labelUnit[q] = "done") /\ nclasses >= 1
        /\ (pc = "reduce" \/ (pc = "done" /\ outcome = "ok"))
              => \A q \in Parts : statUnit[q] = "done"

\* C9 witness: a metric task has returned while another still runs, after a
\* label pass over two partitions
C9_Witness ==
    /\ TwoRound /\ pc = "metric" /\ Len(chunks) = 2
    /\ statUnit = <<"running", "done">>
    /\ labelUnit = <<"done", "done">>

\* the partial statistics accumulated in the order the tasks completed
AccumulatedInCompletionOrder ==
    Accumulate([i \in DOMAIN res |-> [j \in DOMAIN res[i] |-> 0]],
               [k \in 1..Len(order) |-> statRes[order[k]]])

\* s lists the distinct values of y_true in ascending order
IsSortedLabelSet(s) ==
    /\ Range(s) = Range(y_true)
    /\ \A i \in 1..Len(s), j \in 1..Len(s) : i < j => s[i] < s[j]

\* C10: whatever the order in which the tasks completed, the resolved label
\* space is the ascending set of distinct values of y_true, and the summed
\* TP/FP table or confusion matrix equals the sum taken in completion order
C10_OrderIndependent ==
    TwoRound =>
        /\ nclasses # 0 =>
              /\ nclasses = Cardinality(Range(y_true))
              /\ op = "confusion" => IsSortedLabelSet(unique_classes)
        /\ (pc = "done" /\ outcome = "ok") => res = AccumulatedInCompletionOrder

\* C10 witness: the second partition's task completed first and the two
\* partial statistics differ
C10_Witness ==
    /\ TwoRound /\ pc = "done" /\ outcome = "ok"
    /\ order = <<2, 1>>
    /\ statRes[1] # statRes[2]
    /\ labelRes[1] # labelRes[2]

====
